---------------------------- MODULE Spec2Model ----------------------------
(***************************************************************************)
(* Model of the 360-degree stitching pipeline of boilerTempPhoto:          *)
(*   Python/app.py           the HTTP service (FastAPI handlers)           *)
(*   Python/stitch_images.py the standalone batch tool                     *)
(*                                                                         *)
(* Spec     : one execution of one entry point (POST /stitch-360,          *)
(*            POST or GET /stitch-from-folder, batch main) against an      *)
(*            environment chosen in Init: the uploads, the folder, the     *)
(*            engine build, and -- step by step -- the outcomes of the     *)
(*            external calls (Stitcher.stitch, remap, imwrite, imencode).  *)
(* SpecProj : pano_to_equirectangular applied to a panorama size and an    *)
(*            output size drawn from bounded sets; the coordinate map is   *)
(*            filled row by row as the nested loop fills it.               *)
(*                                                                         *)
(* File names are sequences of character codes, so that the filename sort  *)
(* and the suffix test are computed and not assumed.  Python floats are    *)
(* modelled as exact rationals times a power of pi (rounding is not        *)
(* modelled).                                                              *)
(***************************************************************************)
EXTENDS Integers, Sequences, FiniteSets, TLC

VARIABLES
    entry,        \* which entry point runs
    cv2,          \* the engine build: [scans, panorama] attributes present
    uploads,      \* /stitch-360: the uploaded files, in upload order
    folder,       \* the folder: [kind, listing, dirs, corrupt]
    save_output,  \* /stitch-from-folder's save_output parameter
    pc,           \* position of the execution in its handler
    cv_images,    \* the decoded images handed on by the load stage
    engineCalls,  \* every Stitcher.stitch invocation so far, in order
    pano,         \* the panorama returned by stitch_images, or NoImage
    equirect,     \* the projected image, or NoImage
    written,      \* the output files on disk: path -> content
    response,     \* the HTTP response, or NoResponse
    exitCode,     \* the batch tool's exit status, or -1 while running
    err,          \* the exception that ended the execution, or NoError
    stages,       \* the stages that have run, in order
    failedAt,     \* the stage that raised, or "none"
    pano_shape,   \* SpecProj: [w, h] of the panorama
    output_shape, \* SpecProj: [w, h] of the output
    x_map,        \* SpecProj: the x_src array, output_h rows of output_w
    y_map,        \* SpecProj: the y_src array
    y_loop,       \* SpecProj: the outer loop's y
    remapped      \* SpecProj: the source cell each output pixel samples

envVars  == <<entry, cv2, uploads, folder, save_output>>
runVars  == <<pc, cv_images, engineCalls, pano, equirect, written, response,
              exitCode, err, stages, failedAt>>
projVars == <<pano_shape, output_shape, x_map, y_map, y_loop, remapped>>
vars     == <<envVars, runVars, projVars>>

----------------------------------------------------------------------------
(* Bounds of the model                                                      *)

MaxUploads == 3     \* longest upload list
MaxStatus  == 4     \* engine status codes 0 .. MaxStatus
MaxPano    == 3     \* panorama width and height 1 .. MaxPano
MaxOut     == 4     \* output width and height 1 .. MaxOut

----------------------------------------------------------------------------
(* File names                                                               *)

Dot == <<46>>

\* the character codes of "jpg", "jpeg", "png" in lower and upper case
Sfx_jpg  == <<46, 106, 112, 103>>
Sfx_jpeg == <<46, 106, 112, 101, 103>>
Sfx_png  == <<46, 112, 110, 103>>
Sfx_JPG  == <<46, 74, 80, 71>>
Sfx_JPEG == <<46, 74, 80, 69, 71>>
Sfx_PNG  == <<46, 80, 78, 71>>

\* image_extensions = {'.jpg', '.jpeg', '.png', '.JPG', '.JPEG', '.PNG'}
image_extensions == {Sfx_jpg, Sfx_jpeg, Sfx_png, Sfx_JPG, Sfx_JPEG, Sfx_PNG}

\* The names a folder may hold:
\*   "b.jpg"  "B.jpeg"  "a.Jpg"  "c.PNG"  "a.txt"  ".png"
Name_b_jpg  == <<98>> \o Sfx_jpg
Name_B_jpeg == <<66>> \o Sfx_jpeg
Name_a_Jpg  == <<97, 46, 74, 112, 103>>
Name_c_PNG  == <<99>> \o Sfx_PNG
Name_a_txt  == <<97, 46, 116, 120, 116>>
Name_png    == Sfx_png
Names == {Name_b_jpg, Name_B_jpeg, Name_a_Jpg, Name_c_PNG, Name_a_txt, Name_png}

\* pathlib's PurePath.suffix: the name from its last dot on, empty when the
\* name has no dot, starts with its only dot, or ends with a dot
Suffix(name) ==
    LET dots == {i \in 1..Len(name) : name[i] = Dot[1]}
    IN  IF dots = {} THEN <<>>
        ELSE LET j == CHOOSE i \in dots : \A k \in dots : k <= i
             IN  IF 1 < j /\ j < Len(name) THEN SubSeq(name, j, Len(name))
                 ELSE <<>>

\* str.lower on ASCII codes (not used by the code; the claims speak of it)
Lower(s) == [i \in 1..Len(s) |-> IF 65 <= s[i] /\ s[i] <= 90 THEN s[i] + 32 ELSE s[i]]

\* Python's string order: lexicographic on code points
LexLess(a, b) ==
    \E i \in 1..(Len(a) + 1) :
        /\ \A k \in 1..(i - 1) : k <= Len(b) /\ a[k] = b[k]
        /\ \/ i > Len(a) /\ i <= Len(b)
           \/ i <= Len(a) /\ i <= Len(b) /\ a[i] < b[i]

\* sorted(...) of a set of names
RECURSIVE Sorted(_)
Sorted(S) ==
    IF S = {} THEN <<>>
    ELSE LET m == CHOOSE a \in S : \A b \in S : a = b \/ LexLess(a, b)
         IN  <<m>> \o Sorted(S \ {m})

RECURSIVE SelectSeqBy(_, _)
SelectSeqBy(s, keep) ==
    IF s = <<>> THEN <<>>
    ELSE (IF Head(s) \in keep THEN <<Head(s)>> ELSE <<>>) \o SelectSeqBy(Tail(s), keep)

Range(s) == {s[i] : i \in 1..Len(s)}

----------------------------------------------------------------------------
(* Values                                                                   *)

Stitcher_OK == 0
StatusCodes == 0..MaxStatus

NoError == [type |-> "none", msg |-> "", code |-> 0]
Error(type, msg, code) == [type |-> type, msg |-> msg, code |-> code]

\* the messages of the exceptions the code raises
MsgInvalidImage   == "Invalid image file"
MsgNoFolder       == "Folder does not exist"
MsgNeedAtLeast2   == "Need at least 2 images, found n"
MsgLoadedOnly     == "Successfully loaded only n images, need at least 2"
MsgNeedMore       == "Need more images or insufficient overlap"
MsgHomography     == "Homography estimation failed"
MsgCameraParams   == "Camera parameter adjustment failed"
MsgStatusCode     == "Stitching failed with status code: c"
MsgStatus         == "Stitching failed with status c"

NoImage == [present |-> FALSE, kind |-> "none", src |-> <<>>]
Image(kind, src) == [present |-> TRUE, kind |-> kind, src |-> src]

NoResponse == [status |-> 0, body |-> "none", detail |-> NoError]

----------------------------------------------------------------------------
(* The load stage                                                           *)

\* read_image: cv2.imdecode returns None for bytes that are no image
read_image_raises(decodable) == ~decodable

\* [read_image(img) for img in images]: the first undecodable upload raises
read_images(ups) ==
    IF \E i \in 1..Len(ups) : read_image_raises(ups[i])
    THEN [raised |-> Error("ValueError", MsgInvalidImage, 0), images |-> <<>>]
    ELSE [raised |-> NoError, images |-> [i \in 1..Len(ups) |-> i]]

\* f.is_file() and f.suffix in image_extensions
is_image_file(f, name) == name \notin f.dirs /\ Suffix(name) \in image_extensions

\* image_files = sorted([f for f in folder.iterdir() if ...])
image_files(f) == Sorted({name \in f.listing : is_image_file(f, name)})

\* mutant: the loop appends every file, decoded or not
imread_all_keep(f, files) == files

\* the loop over image_files: cv2.imread returns None for a file it cannot
\* decode, and the file is skipped
imread_all(f, files) == SelectSeqBy(files, f.listing \ f.corrupt)

\* mutant: the folder.exists() test is missing, so iterdir() raises
load_images_from_folder_noexists(f) ==
    IF f.kind = "missing"
    THEN [raised |-> Error("FileNotFoundError", "", 0), images |-> <<>>]
    ELSE IF f.kind = "file"
    THEN [raised |-> Error("NotADirectoryError", "", 0), images |-> <<>>]
    ELSE IF Len(image_files(f)) < 2
    THEN [raised |-> Error("ValueError", MsgNeedAtLeast2, Len(image_files(f))),
          images |-> <<>>]
    ELSE IF Len(imread_all(f, image_files(f))) < 2
    THEN [raised |-> Error("ValueError", MsgLoadedOnly,
                           Len(imread_all(f, image_files(f)))),
          images |-> <<>>]
    ELSE [raised |-> NoError, images |-> imread_all(f, image_files(f))]

\* load_images_from_folder (the same function in both files)
load_images_from_folder(f) ==
    IF f.kind = "missing"
    THEN [raised |-> Error("ValueError", MsgNoFolder, 0), images |-> <<>>]
    ELSE IF f.kind = "file"
    THEN [raised |-> Error("NotADirectoryError", "", 0), images |-> <<>>]
    ELSE IF Len(image_files(f)) < 2
    THEN [raised |-> Error("ValueError", MsgNeedAtLeast2, Len(image_files(f))),
          images |-> <<>>]
    ELSE IF Len(imread_all(f, image_files(f))) < 2
    THEN [raised |-> Error("ValueError", MsgLoadedOnly,
                           Len(imread_all(f, image_files(f)))),
          images |-> <<>>]
    ELSE [raised |-> NoError, images |-> imread_all(f, image_files(f))]

----------------------------------------------------------------------------
(* The stitch stage                                                         *)

Call(mode, images, status) == [mode |-> mode, images |-> images, status |-> status]

\* mutant: a non-OK status is not raised, the (absent) panorama is returned
app_stitch_images_noraise(build, images, s1) ==
    IF ~build.panorama
    THEN [calls |-> <<>>, raised |-> Error("AttributeError", "", 0), pano |-> NoImage]
    ELSE [calls  |-> <<Call("PANORAMA", images, s1)>>,
          raised |-> NoError,
          pano   |-> IF s1 = Stitcher_OK THEN Image("pano", images) ELSE NoImage]

\* app.py stitch_images: one PANORAMA attempt, s1 the status the engine returns
app_stitch_images(build, images, s1) ==
    IF ~build.panorama
    THEN [calls |-> <<>>, raised |-> Error("AttributeError", "", 0), pano |-> NoImage]
    ELSE IF s1 # Stitcher_OK
    THEN [calls  |-> <<Call("PANORAMA", images, s1)>>,
          raised |-> Error("RuntimeError", MsgStatus, s1),
          pano   |-> NoImage]
    ELSE [calls  |-> <<Call("PANORAMA", images, s1)>>,
          raised |-> NoError,
          pano   |-> Image("pano", images)]

\* stitch_images.py: error_codes.get(status, f"... status code: {status}")
error_msg(status) ==
    CASE status = 1 -> MsgNeedMore
      [] status = 2 -> MsgHomography
      [] status = 3 -> MsgCameraParams
      [] OTHER      -> MsgStatusCode

\* stitch_images.py stitch_images: s1 and s2 are the statuses the engine
\* returns to the first and (when it is made) the second stitch call
batch_stitch_images(build, images, s1, s2) ==
    IF ~build.scans /\ ~build.panorama
    THEN \* the except branch itself raises
         [calls |-> <<>>, raised |-> Error("AttributeError", "", 0), pano |-> NoImage]
    ELSE
    LET mode1 == IF build.scans THEN "SCANS" ELSE "PANORAMA"
        c1    == Call(mode1, images, s1)
        c2    == Call("PANORAMA", images, s2)
    IN  IF s1 = Stitcher_OK
        THEN [calls |-> <<c1>>, raised |-> NoError, pano |-> Image("pano", images)]
        ELSE IF build.panorama
        THEN IF s2 = Stitcher_OK
             THEN [calls |-> <<c1, c2>>, raised |-> NoError,
                   pano |-> Image("pano", images)]
             ELSE [calls |-> <<c1, c2>>,
                   raised |-> Error("RuntimeError", error_msg(s2), s2),
                   pano |-> NoImage]
        ELSE [calls |-> <<c1>>,
              raised |-> Error("RuntimeError", error_msg(s1), s1),
              pano |-> NoImage]

----------------------------------------------------------------------------
(* One execution of an entry point                                          *)

AppEntries    == {"stitch_360", "stitch_from_folder", "stitch_from_folder_get"}
FolderEntries == {"stitch_from_folder", "stitch_from_folder_get", "main"}
Entries       == AppEntries \cup {"main"}

PathPrimary   == "Images/stitched_output.jpg"
PathSecondary == "Images/panorama.jpg"
PathService   == "<folder_path>/../stitched_output.jpg"
Paths         == {PathPrimary, PathSecondary, PathService}

\* the outcomes of cv2.imwrite and cv2.imencode: the file or buffer is
\* produced, the call returns False, or the call raises cv2.error
IoOutcomes == {"ok", "false", "raise"}

Folders ==
    {[kind |-> "missing", listing |-> {}, dirs |-> {}, corrupt |-> {}],
     [kind |-> "file",    listing |-> {}, dirs |-> {}, corrupt |-> {}]}
    \cup
    {[kind |-> "dir", listing |-> l, dirs |-> d, corrupt |-> c] :
        <<l, d, c>> \in {t \in (SUBSET Names) \X (SUBSET Names) \X (SUBSET Names) :
                            /\ t[2] \subseteq t[1]
                            /\ Cardinality(t[2]) <= 1
                            /\ t[3] \subseteq (t[1] \ t[2])}}

UploadLists == UNION {[1..n -> BOOLEAN] : n \in 1..MaxUploads}

InitRun ==
    /\ pc = "start"
    /\ cv_images = <<>>
    /\ engineCalls = <<>>
    /\ pano = NoImage
    /\ equirect = NoImage
    /\ written = [p \in Paths |-> NoImage]
    /\ response = NoResponse
    /\ exitCode = -1
    /\ err = NoError
    /\ stages = <<>>
    /\ failedAt = "none"

IdleProj ==
    /\ pano_shape = [w |-> 1, h |-> 1]
    /\ output_shape = [w |-> 1, h |-> 1]
    /\ x_map = <<>>
    /\ y_map = <<>>
    /\ y_loop = 0
    /\ remapped = <<>>

Init ==
    /\ entry \in Entries
    /\ cv2 \in [scans : BOOLEAN, panorama : BOOLEAN]
    /\ IF entry = "stitch_360"
       THEN /\ uploads \in UploadLists
            /\ folder = [kind |-> "missing", listing |-> {}, dirs |-> {}, corrupt |-> {}]
       ELSE /\ uploads = <<>>
            /\ folder \in Folders
    /\ IF entry \in {"stitch_from_folder", "stitch_from_folder_get"}
       THEN save_output \in BOOLEAN
       ELSE save_output = FALSE
    /\ InitRun
    /\ IdleProj

\* except Exception as e: the service answers 500, the batch tool returns 1
Raise(stage, e) ==
    /\ err' = e
    /\ failedAt' = stage
    /\ pc' = "done"
    /\ IF entry = "main"
       THEN exitCode' = 1 /\ UNCHANGED response
       ELSE /\ response' = [status |-> 500, body |-> "error", detail |-> e]
            /\ UNCHANGED exitCode

\* stitch_360: if len(images) < 2: raise HTTPException(status_code=400)
Stitch360_CheckCount ==
    /\ pc = "start" /\ entry = "stitch_360"
    /\ IF Len(uploads) < 2
       THEN /\ response' = [status |-> 400, body |-> "error",
                            detail |-> Error("HTTPException",
                                             "At least two images required", 400)]
            /\ pc' = "done"
       ELSE /\ pc' = "load"
            /\ UNCHANGED response
    /\ UNCHANGED <<envVars, projVars, cv_images, engineCalls, pano, equirect,
                   written, exitCode, err, stages, failedAt>>

\* stitch_360: cv_images = [read_image(img) for img in images]
Stitch360_ReadImages ==
    /\ pc = "load" /\ entry = "stitch_360"
    /\ stages' = Append(stages, "load")
    /\ LET r == read_images(uploads)
       IN  IF r.raised # NoError
           THEN Raise("load", r.raised) /\ UNCHANGED cv_images
           ELSE /\ cv_images' = r.images
                /\ pc' = "stitch"
                /\ UNCHANGED <<response, exitCode, err, failedAt>>
    /\ UNCHANGED <<envVars, projVars, engineCalls, pano, equirect, written>>

\* stitch_from_folder, main: cv_images = load_images_from_folder(folder_path)
Folder_Load ==
    /\ pc = "start" /\ entry \in FolderEntries
    /\ stages' = Append(stages, "load")
    /\ LET r == load_images_from_folder(folder)
       IN  IF r.raised # NoError
           THEN Raise("load", r.raised) /\ UNCHANGED cv_images
           ELSE /\ cv_images' = r.images
                /\ pc' = "stitch"
                /\ UNCHANGED <<response, exitCode, err, failedAt>>
    /\ UNCHANGED <<envVars, projVars, engineCalls, pano, equirect, written>>

\* stitch_360, stitch_from_folder: pano = stitch_images(cv_images)
App_Stitch ==
    /\ pc = "stitch" /\ entry \in AppEntries
    /\ stages' = Append(stages, "stitch")
    /\ \E s1 \in StatusCodes :
         LET r == app_stitch_images(cv2, cv_images, s1)
         IN  /\ engineCalls' = engineCalls \o r.calls
             /\ IF r.raised # NoError
                THEN Raise("stitch", r.raised) /\ UNCHANGED pano
                ELSE /\ pano' = r.pano
                     /\ pc' = "project"
                     /\ UNCHANGED <<response, exitCode, err, failedAt>>
    /\ UNCHANGED <<envVars, projVars, cv_images, equirect, written>>

\* main: pano = stitch_images(images)
Main_Stitch ==
    /\ pc = "stitch" /\ entry = "main"
    /\ stages' = Append(stages, "stitch")
    /\ \E s1 \in StatusCodes, s2 \in StatusCodes :
         LET r == batch_stitch_images(cv2, cv_images, s1, s2)
         IN  /\ engineCalls' = engineCalls \o r.calls
             /\ IF r.raised # NoError
                THEN Raise("stitch", r.raised) /\ UNCHANGED pano
                ELSE /\ pano' = r.pano
                     /\ pc' = "project"
                     /\ UNCHANGED <<response, exitCode, err, failedAt>>
    /\ UNCHANGED <<envVars, projVars, cv_images, equirect, written>>

\* equirect = pano_to_equirectangular(pano), with the default output size;
\* cv2.remap either returns the resampled image or raises cv2.error
Project ==
    /\ pc = "project"
    /\ stages' = Append(stages, "project")
    /\ \E remap_ok \in BOOLEAN :
         IF remap_ok
         THEN /\ equirect' = [present |-> TRUE, kind |-> "equirect", src |-> pano.src]
              /\ pc' = IF entry = "main" THEN "write_primary"
                       ELSE IF entry = "stitch_360" THEN "encode"
                       ELSE IF save_output THEN "save" ELSE "encode"
              /\ UNCHANGED <<response, exitCode, err, failedAt>>
         ELSE Raise("project", Error("cv2.error", "", 0)) /\ UNCHANGED equirect
    /\ UNCHANGED <<envVars, projVars, cv_images, engineCalls, pano, written>>

\* cv2.imwrite(path, img) whose return value the caller drops
imwrite(path, img, outcome, next) ==
    /\ stages' = Append(stages, "persist")
    /\ IF outcome = "raise"
       THEN Raise("persist", Error("cv2.error", "", 0)) /\ UNCHANGED written
       ELSE /\ written' = IF outcome = "ok" THEN [written EXCEPT ![path] = img]
                          ELSE written
            /\ pc' = next
            /\ UNCHANGED <<response, exitCode, err, failedAt>>
    /\ UNCHANGED <<envVars, projVars, cv_images, engineCalls, pano, equirect>>

\* stitch_from_folder: if save_output: cv2.imwrite(str(output_path), equirect)
Folder_Save ==
    /\ pc = "save"
    /\ \E o \in IoOutcomes : imwrite(PathService, equirect, o, "encode")

\* stitch_360, stitch_from_folder: cv2.imencode, then the StreamingResponse
App_Encode ==
    /\ pc = "encode"
    /\ stages' = Append(stages, "encode")
    /\ \E o \in IoOutcomes :
         IF o = "raise"
         THEN Raise("encode", Error("cv2.error", "", 0))
         ELSE /\ response' = [status |-> 200,
                              body |-> IF o = "ok" THEN "image" ELSE "empty",
                              detail |-> NoError]
              /\ pc' = "done"
              /\ UNCHANGED <<exitCode, err, failedAt>>
    /\ UNCHANGED <<envVars, projVars, cv_images, engineCalls, pano, equirect, written>>

\* main: cv2.imwrite(str(output_path), equirect)
Main_WritePrimary ==
    /\ pc = "write_primary"
    /\ \E o \in IoOutcomes : imwrite(PathPrimary, equirect, o, "write_secondary")

\* main: cv2.imwrite(str(pano_path), pano)
Main_WriteSecondary ==
    /\ pc = "write_secondary"
    /\ \E o \in IoOutcomes : imwrite(PathSecondary, pano, o, "return")

\* main: return 0
Main_Return ==
    /\ pc = "return"
    /\ exitCode' = 0
    /\ pc' = "done"
    /\ UNCHANGED <<envVars, projVars, cv_images, engineCalls, pano, equirect,
                   written, response, err, stages, failedAt>>

Next ==
    \/ Stitch360_CheckCount
    \/ Stitch360_ReadImages
    \/ Folder_Load
    \/ App_Stitch
    \/ Main_Stitch
    \/ Project
    \/ Folder_Save
    \/ App_Encode
    \/ Main_WritePrimary
    \/ Main_WriteSecondary
    \/ Main_Return

Spec == Init /\ [][Next]_vars

----------------------------------------------------------------------------
(* Arithmetic of the projector: a Python float is modelled as the exact     *)
(* value (n / d) * pi^p with d > 0 and n / d in lowest terms                *)

Abs(k) == IF k < 0 THEN -k ELSE k

RECURSIVE Gcd(_, _)
Gcd(a, b) == IF b = 0 THEN a ELSE Gcd(b, a % b)

Num(n, d, p) ==
    IF n = 0 THEN [n |-> 0, d |-> 1, p |-> 0]
    ELSE LET g == Gcd(Abs(n), Abs(d))
             sgn == IF d < 0 THEN -1 ELSE 1
         IN  [n |-> sgn * (n \div g), d |-> sgn * (d \div g), p |-> p]

Flt(k) == Num(k, 1, 0)
Half   == Num(1, 2, 0)
np_pi  == Num(1, 1, 1)

Mul(a, b) == Num(a.n * b.n, a.d * b.d, a.p + b.p)
Div(a, b) == Num(a.n * b.d, a.d * b.n, a.p - b.p)
Add(a, b) ==
    CASE a.n = 0   -> b
      [] b.n = 0   -> a
      [] a.p = b.p -> Num(a.n * b.d + b.n * a.d, a.d * b.d, a.p)
Sub(a, b) == Add(a, Mul(Flt(-1), b))

\* comparisons of values that carry no power of pi
Leq(a, b)  == a.p = 0 /\ b.p = 0 /\ a.n * b.d <= b.n * a.d
Less(a, b) == a.p = 0 /\ b.p = 0 /\ a.n * b.d < b.n * a.d
Floor(a)   == a.n \div a.d

----------------------------------------------------------------------------
(* pano_to_equirectangular (the same function in both files)                *)

\* theta = (y / output_h - 0.5) * np.pi
theta_of(y, output_h) == Mul(Sub(Div(Flt(y), Flt(output_h)), Half), np_pi)

\* mutant: the longitude is not centred (the "- 0.5" is missing)
phi_of_unshifted(x, output_w) ==
    Mul(Mul(Div(Flt(x), Flt(output_w)), Flt(2)), np_pi)

\* phi = (x / output_w - 0.5) * 2 * np.pi
phi_of(x, output_w) == Mul(Mul(Sub(Div(Flt(x), Flt(output_w)), Half), Flt(2)), np_pi)

\* mutant: the longitude is mirrored (1 - phi / pi)
xs_of_mirrored(w, phi) == Mul(Mul(Half, Flt(w)), Sub(Flt(1), Div(phi, np_pi)))

\* xs = 0.5 * w * (phi / np.pi + 1)
xs_of(w, phi) == Mul(Mul(Half, Flt(w)), Add(Div(phi, np_pi), Flt(1)))

\* ys = 0.5 * h * (theta / (np.pi / 2) + 1)
ys_of(h, theta) == Mul(Mul(Half, Flt(h)), Add(Div(theta, Div(np_pi, Flt(2))), Flt(1)))

\* np.zeros((output_h, output_w), np.float32)
zeros(rows, cols) == [y \in 0..(rows - 1) |-> [x \in 0..(cols - 1) |-> Flt(0)]]

\* borderMode=cv2.BORDER_WRAP: an index outside the panorama wraps around
border_wrap(i, size) == i % size

\* cv2.remap with INTER_LINEAR: output pixel (x, y) interpolates the source
\* cells around (x_map[y, x], y_map[y, x]), each addressed through the border
remap(shape, xm, ym) ==
    [y \in DOMAIN xm |->
        [x \in DOMAIN xm[y] |->
            [col0 |-> border_wrap(Floor(xm[y][x]), shape.w),
             col1 |-> border_wrap(Floor(xm[y][x]) + 1, shape.w),
             row0 |-> border_wrap(Floor(ym[y][x]), shape.h),
             row1 |-> border_wrap(Floor(ym[y][x]) + 1, shape.h)]]]

IdleRun ==
    /\ entry = "none"
    /\ cv2 = [scans |-> TRUE, panorama |-> TRUE]
    /\ uploads = <<>>
    /\ folder = [kind |-> "missing", listing |-> {}, dirs |-> {}, corrupt |-> {}]
    /\ save_output = FALSE
    /\ InitRun

InitProj ==
    /\ IdleRun
    /\ pano_shape \in [w : 1..MaxPano, h : 1..MaxPano]
    /\ output_shape \in [w : 1..MaxOut, h : 1..MaxOut]
    /\ x_map = zeros(output_shape.h, output_shape.w)
    /\ y_map = zeros(output_shape.h, output_shape.w)
    /\ y_loop = 0
    /\ remapped = <<>>

\* one pass of "for y in range(output_h)": the inner loop fills row y
Proj_Row ==
    /\ y_loop < output_shape.h
    /\ LET theta == theta_of(y_loop, output_shape.h)
       IN  /\ x_map' = [x_map EXCEPT ![y_loop] =
                          [x \in 0..(output_shape.w - 1) |->
                              xs_of(pano_shape.w, phi_of(x, output_shape.w))]]
           /\ y_map' = [y_map EXCEPT ![y_loop] =
                          [x \in 0..(output_shape.w - 1) |->
                              ys_of(pano_shape.h, theta)]]
    /\ y_loop' = y_loop + 1
    /\ UNCHANGED <<envVars, runVars, pano_shape, output_shape, remapped>>

\* return cv2.remap(pano, x_map, y_map, ...)
Proj_Remap ==
    /\ y_loop = output_shape.h
    /\ remapped = <<>>
    /\ remapped' = remap(pano_shape, x_map, y_map)
    /\ UNCHANGED <<envVars, runVars, pano_shape, output_shape, x_map, y_map, y_loop>>

NextProj ==
    \/ Proj_Row
    \/ Proj_Remap

SpecProj == InitProj /\ [][NextProj]_vars

----------------------------------------------------------------------------
(* Vocabulary of the claims                                                 *)

\* the error kind of the specification's taxonomy that an exception carries
ErrorKind(e) ==
    CASE e.msg = MsgInvalidImage -> "InvalidImage"
      [] e.msg = MsgNoFolder     -> "DirectoryNotFound"
      [] e.msg = MsgNeedAtLeast2 -> "InsufficientImages"
      [] e.msg = MsgLoadedOnly   -> "InsufficientImages"
      [] e.msg = MsgNeedMore     -> "InsufficientOverlap"
      [] e.msg = MsgHomography   -> "HomographyEstimationFailed"
      [] e.msg = MsgCameraParams -> "CameraParameterAdjustmentFailed"
      [] e.msg = MsgStatusCode   -> "UnknownEngineFailure"
      [] e.msg = MsgStatus       -> "UnknownEngineFailure"
      [] OTHER                   -> "Other"

\* the classification the specification asks for
Classify(code) ==
    CASE code = 1 -> "InsufficientOverlap"
      [] code = 2 -> "HomographyEstimationFailed"
      [] code = 3 -> "CameraParameterAdjustmentFailed"
      [] OTHER    -> "UnknownEngineFailure"

Ran(stage)  == stage \in Range(stages)
LastCall    == engineCalls[Len(engineCalls)]
ModeCount(m) == Cardinality({i \in DOMAIN engineCalls : engineCalls[i].mode = m})

\* the stitch call has returned or raised, and every attempt it made failed
AllAttemptsFailed ==
    /\ engineCalls # <<>>
    /\ \A i \in DOMAIN engineCalls : engineCalls[i].status # Stitcher_OK

LoadFailed   == failedAt = "load"
StitchFailed == Ran("stitch") /\ (engineCalls = <<>> \/ LastCall.status # Stitcher_OK)

IsPrefix(s, t) == Len(s) <= Len(t) /\ \A i \in 1..Len(s) : s[i] = t[i]

\* the stages of each entry point, in the order the specification gives
Pipeline ==
    CASE entry = "stitch_360" -> <<"load", "stitch", "project", "encode">>
      [] entry = "main"       -> <<"load", "stitch", "project", "persist", "persist">>
      [] entry \in {"stitch_from_folder", "stitch_from_folder_get"} ->
            IF save_output
            THEN <<"load", "stitch", "project", "persist", "encode">>
            ELSE <<"load", "stitch", "project", "encode">>
      [] OTHER -> <<>>

\* the allow-set {jpg, jpeg, png} compared case-insensitively
AllowedSuffix(name) == Lower(Suffix(name)) \in {Sfx_jpg, Sfx_jpeg, Sfx_png}
Matching(f)  == {name \in f.listing : name \notin f.dirs /\ AllowedSuffix(name)}
Decodable(f) == f.listing \ f.corrupt

----------------------------------------------------------------------------
(* C1: in every entry point the engine is invoked in SCANS mode first, and  *)
(* in PANORAMA mode only if SCANS was unavailable or returned non-OK, and   *)
(* then exactly once: at most two invocations, at most one of them          *)
(* PANORAMA, and none after a successful SCANS.                             *)
C1_ScansFirstPanoramaOnce ==
    /\ Len(engineCalls) <= 2
    /\ ModeCount("PANORAMA") <= 1
    /\ \A i \in DOMAIN engineCalls :
         /\ (i = 1 /\ cv2.scans) => engineCalls[i].mode = "SCANS"
         /\ engineCalls[i].mode = "PANORAMA" =>
               \/ ~cv2.scans
               \/ /\ i > 1
                  /\ engineCalls[i - 1].mode = "SCANS"
                  /\ engineCalls[i - 1].status # Stitcher_OK
         /\ (engineCalls[i].mode = "SCANS" /\ engineCalls[i].status = Stitcher_OK)
               => i = Len(engineCalls)

(* C2: when every engine attempt of a stitch call ends non-OK, the call     *)
(* returns no panorama and raises the classification of the last status     *)
(* code (1, 2, 3, otherwise unknown with the code), in both entry kinds.    *)
C2_FailureClassified ==
    AllAttemptsFailed =>
        /\ pano = NoImage
        /\ failedAt = "stitch"
        /\ ErrorKind(err) = Classify(LastCall.status)
        /\ err.code = LastCall.status

(* C3: the stages run in the order load, stitch, project, persist/encode,   *)
(* and once a stage fails no later stage runs: no engine invocation after   *)
(* a load failure, no projection after a stitch failure, and no output      *)
(* file and no image body when load or stitch failed.                       *)
C3_StagesShortCircuit ==
    /\ IsPrefix(stages, Pipeline)
    /\ failedAt # "none" => (pc = "done" /\ stages[Len(stages)] = failedAt)
    /\ LoadFailed => (engineCalls = <<>> /\ ~Ran("stitch"))
    /\ StitchFailed => (~Ran("project") /\ equirect = NoImage)
    /\ (LoadFailed \/ StitchFailed) =>
          /\ \A p \in Paths : written[p] = NoImage
          /\ response.body \notin {"image", "empty"}
          /\ ~Ran("persist") /\ ~Ran("encode")

C3_Witness ==
    /\ pc = "done"
    /\ stages = <<"load", "stitch">>
    /\ StitchFailed /\ engineCalls # <<>>

(* C4: an HTTP request maps malformed or insufficient input to 400, a       *)
(* stitching or encoding failure to 500, and answers 200 with an image      *)
(* body only when load, stitch, projection and encoding all succeeded.      *)
BadInput ==
    IF entry = "stitch_360"
    THEN Len(uploads) < 2 \/ \E i \in DOMAIN uploads : ~uploads[i]
    ELSE \/ folder.kind = "missing"
         \/ folder.kind = "dir" /\ Cardinality(Matching(folder) \cap Decodable(folder)) < 2

C4_StatusByKind ==
    (entry \in AppEntries /\ pc = "done") =>
        /\ BadInput => response.status = 400
        /\ failedAt \in {"stitch", "encode"} => response.status = 500
        /\ response.status = 200 =>
              /\ response.body = "image"
              /\ failedAt = "none"
              /\ Ran("load") /\ Ran("stitch") /\ Ran("project") /\ Ran("encode")

(* C5: the batch tool exits 0 only when Images/stitched_output.jpg was      *)
(* written; a failed primary write, and any load, stitch or projection      *)
(* error, is fatal (exit 1).                                                *)
C5_ExitZeroOnlyIfPrimaryWritten ==
    entry = "main" =>
        /\ exitCode = 0 => (equirect.present /\ written[PathPrimary] = equirect)
        /\ (pc = "done" /\ failedAt \in {"load", "stitch", "project"}) => exitCode = 1

\* C5, second half: a failure to write only Images/panorama.jpg leaves a run
\* whose primary output was written successful, and the primary untouched
C5_SecondaryNotFatal ==
    (entry = "main" /\ pc = "done" /\ Len(stages) = 5) =>
        (written[PathPrimary] = equirect => exitCode = 0)

(* C6: the engine is only ever invoked with at least 2 images, each decoded *)
(* successfully, in source order; an undecodable upload fails the whole     *)
(* /stitch-360 call and a folder with fewer than 2 decoded images fails     *)
(* before the engine is invoked.                                            *)
C6_EngineInput ==
    /\ \A i \in DOMAIN engineCalls :
         LET imgs == engineCalls[i].images
         IN  /\ Len(imgs) >= 2
             /\ IF entry = "stitch_360"
                THEN /\ imgs = [k \in 1..Len(uploads) |-> k]
                     /\ \A k \in DOMAIN uploads : uploads[k]
                ELSE /\ Range(imgs) \subseteq Decodable(folder)
                     /\ Range(imgs) \cap folder.dirs = {}
                     /\ \A k \in 1..(Len(imgs) - 1) : LexLess(imgs[k], imgs[k + 1])
                     /\ \A n \in folder.listing :
                           (n \in Decodable(folder) /\ is_image_file(folder, n))
                              => n \in Range(imgs)
    /\ (entry = "stitch_360" /\ Ran("load") /\ \E k \in DOMAIN uploads : ~uploads[k])
          => (failedAt = "load" /\ engineCalls = <<>> /\ response.body = "error")
    /\ (entry \in FolderEntries /\ Ran("load") /\ folder.kind = "dir"
          /\ Cardinality({n \in Decodable(folder) : is_image_file(folder, n)}) < 2)
          => (failedAt = "load" /\ engineCalls = <<>>)

C6_Witness ==
    /\ entry = "main"
    /\ Len(engineCalls) = 2
    /\ Len(LastCall.images) = 2
    /\ folder.corrupt \cap {n \in folder.listing : is_image_file(folder, n)} # {}

(* C7: loading a folder fails with DirectoryNotFound exactly when the path  *)
(* does not exist, and with InsufficientImages when the folder exists but   *)
(* holds 0 or 1 matching image files; the kinds differ and no image is      *)
(* returned in either case.                                                 *)
C7_LoadErrorKinds ==
    (entry \in FolderEntries /\ Ran("load") /\ folder.kind \in {"missing", "dir"}) =>
        /\ ErrorKind(err) = "DirectoryNotFound" <=> folder.kind = "missing"
        /\ (folder.kind = "dir" /\ Cardinality(Matching(folder)) < 2) =>
              ErrorKind(err) = "InsufficientImages"
        /\ ErrorKind(err) \in {"DirectoryNotFound", "InsufficientImages"} =>
              (failedAt = "load" /\ cv_images = <<>> /\ engineCalls = <<>>)

C7_Witness ==
    /\ entry \in FolderEntries
    /\ folder.kind = "dir"
    /\ Cardinality(Matching(folder)) = 1
    /\ ErrorKind(err) = "InsufficientImages"
    /\ pc = "done"

(* C8: folder loading selects a regular file if and only if its extension,  *)
(* compared case-insensitively, is jpg, jpeg or png -- whatever its casing  *)
(* -- and processes the selected files in lexicographic filename order.     *)
C8_CaseInsensitiveSelection ==
    (entry \in FolderEntries /\ Ran("load") /\ folder.kind = "dir") =>
        LET files == image_files(folder)
        IN  /\ Range(files) = Matching(folder)
            /\ \A k \in 1..(Len(files) - 1) : LexLess(files[k], files[k + 1])

----------------------------------------------------------------------------
(* The projector's coordinate map (checked under SpecProj)                  *)

FilledRows == 0..(y_loop - 1)
Columns    == 0..(output_shape.w - 1)

(* C9: for fixed y, x_src is non-decreasing in x; for fixed x, y_src is     *)
(* non-decreasing in y; x_src does not depend on y nor y_src on x -- for    *)
(* every panorama size and every output size with positive dimensions.      *)
C9_Monotone ==
    /\ \A y \in FilledRows : \A x \in Columns :
         (x + 1) \in Columns => Leq(x_map[y][x], x_map[y][x + 1])
    /\ \A y \in FilledRows : \A x \in Columns :
         (y + 1) \in FilledRows => Leq(y_map[y][x], y_map[y + 1][x])
    /\ \A y1 \in FilledRows : \A y2 \in FilledRows : \A x \in Columns :
         x_map[y1][x] = x_map[y2][x]
    /\ \A y \in FilledRows : \A x1 \in Columns : \A x2 \in Columns :
         y_map[y][x1] = y_map[y][x2]

C9_Witness ==
    /\ remapped # <<>>
    /\ output_shape.w >= 3 /\ output_shape.h >= 3
    /\ Less(x_map[0][0], x_map[0][1]) /\ Less(x_map[0][1], x_map[0][2])
    /\ Less(y_map[0][0], y_map[1][0]) /\ Less(y_map[1][0], y_map[2][0])

============================================================================
